---- MODULE Spec2Model ----
(***************************************************************************)
(* Worker pools of node-concurrent-worker-tasks.                           *)
(*                                                                         *)
(* Two pools are modelled side by side:                                    *)
(*   - the index.js pool (run / runTask / buildPool / executeWorker), whose *)
(*     state is poolSize, pool, workers, calls, now, lastTaskTime;          *)
(*   - the queue-based pool (run / assignTasks / handleWorkerResult),       *)
(*     whose state is qPoolSize, qPool, taskQueue, qWorkers, build, ...     *)
(* Each pool has its own next-state relation and specification; the other  *)
(* pool's variables stay as constructed.                                   *)
(***************************************************************************)
EXTENDS Integers, Sequences, FiniteSets, TLC

VARIABLES
    variant,       \* which WorkerPool the host constructed: "index" or "queue"
    \* ---- index.js pool ----
    poolSize,      \* this.poolSize
    pool,          \* this.pool: the idle workers, a sequence of worker handles
    workers,       \* every Worker object created so far, indexed by handle
    calls,         \* the run() calls: position, status flag, outcome
    ncalls,        \* number of run() calls made so far
    now,           \* Date.now()
    lastTaskTime,  \* taskManager.lastTaskTime: <<>> is null, <<t>> a timestamp
    \* ---- queue-based pool ----
    qPoolSize,     \* this.poolSize
    qPool,         \* this.pool: the workers that came online, in order
    taskQueue,     \* this.taskQueue
    qWorkers,      \* every Worker object created so far, indexed by handle
    build,         \* buildPool: iterations completed and where it stands
    promises,      \* the promise of each run() call
    qn,            \* number of run() calls made so far
    qCrashed,      \* an exception escaped an event handler of the coordinator
    dispatched,    \* the tasks in the order they were posted (history)
    failedTasks,   \* tasks that were on a worker when it failed (history)
    qClean,        \* no failure, no shutdown, no run() before the pool was built (history)
    \* ---- the rate gate on its own ----
    rTimes,        \* the times at which canExecuteTask was called (history)
    rFlags,        \* for each of them, whether the submission was flagged (history)
    rPools,        \* for each of them, the WorkerPool instance whose run made the call (history)
    \* ---- round-robin pool ----
    rrPoolSize,    \* this.poolSize
    rrPool,        \* this.pool: the workers that came online, in order
    workerIndex,   \* this.workerIndex
    rrWorkers,     \* every Worker object created so far, indexed by handle
    rrBuild,       \* buildPool: iterations completed and where it stands
    rrCalls,       \* the run() calls: position, worker picked, what they resolved with
    rrn,           \* number of run() calls made so far
    lastOp         \* what the last step was (history)

ivars == <<poolSize, pool, workers, calls, ncalls, now, lastTaskTime>>

qvars == <<qPoolSize, qPool, taskQueue, qWorkers, build, promises, qn, qCrashed,
           dispatched, failedTasks, qClean>>

rvars == <<rTimes, rFlags, rPools>>

rrvars == <<rrPoolSize, rrPool, workerIndex, rrWorkers, rrBuild, rrCalls, rrn>>

vars == <<variant, lastOp, ivars, qvars, rvars, rrvars>>

-----------------------------------------------------------------------------
(* Bounds of the model *)
MaxPoolSize == 2
MaxTasks == 2
MaxBuilds == 1     \* calls of buildPool after the constructor's
QMaxPoolSize == 2
QMaxTasks == 3
RRMaxPoolSize == 2
RRMaxTasks == 3
MaxSubmissions == 4

(* Program constants *)
IdleThreshold == 100
MemThreshold == 90
ListenerLimit == 5   \* round-robin run: messageListenerCount >= 5

(* Inputs *)
Tasks == 1..MaxTasks
QTasks == 1..QMaxTasks
\* ms elapsed between two run() calls
TimeSteps == {0, IdleThreshold}
\* (memUsed / freeMemoryAvailable) * 100, in hundredths of a percent
MemLevels == {MemThreshold * 100, MemThreshold * 100 + 4, MemThreshold * 100 + 500}
\* ms elapsed between two calls of canExecuteTask made on its own
RateSteps == {0, 1, IdleThreshold - 1, IdleThreshold}
\* the WorkerPool instances of the process
PoolInstances == {1, 2}
RRTasks == 1..RRMaxTasks

-----------------------------------------------------------------------------
(* Mutant of canExecuteTask: lastTaskTime updated by flagged calls too *)
canExecuteTaskMoving(time, last) ==
    IF last = <<>>
    THEN [ok |-> TRUE, last |-> <<time>>]
    ELSE LET canExecute == (time - last[1]) >= IdleThreshold
         IN  [ok |-> canExecute, last |-> <<time>>]

(* index.js: TaskManager.canExecuteTask *)
canExecuteTask(time, last) ==
    IF last = <<>>
    THEN [ok |-> TRUE, last |-> <<time>>]
    ELSE LET canExecute == (time - last[1]) >= IdleThreshold
         IN  [ok |-> canExecute, last |-> IF canExecute THEN <<time>> ELSE last]

(* types/customError: an error that carries the status it is built with *)
CustomError(message, status) == [status |-> status, message |-> message]

(* new JsError(message): no status *)
JsError(message) == [status |-> 0, message |-> message]

(* Mutant of runCatch: the status of the error ignored *)
runCatchAlways500(err) == 500

(* index.js: the catch of run: err.status || 500 *)
runCatch(err) == IF err.status # 0 THEN err.status ELSE 500

(* Number.prototype.toFixed(1) of a value given in hundredths: the value    *)
(* rounded to tenths                                                        *)
toFixed1(x) == (x + 5) \div 10

(* JavaScript values of the kinds the capacity field of a result can hold *)
JsUndefined == [type |-> "undefined", bool |-> FALSE, num |-> 0]
JsBoolean(b) == [type |-> "boolean", bool |-> b, num |-> 0]
JsNumber(n) == [type |-> "number", bool |-> FALSE, num |-> n]

(* Mutant of getMemPercent: the comparison of the capacity check reversed *)
getMemPercentReversed(used) ==
    LET memPercent == toFixed1(used)
    IN  [throws |-> memPercent < MemThreshold * 10,
         error |-> CustomError("Server capacity is low", 503),
         memPercent |-> memPercent,
         value |-> JsBoolean(memPercent < MemThreshold * 10)]

(* index.js: getMemPercent. memPercent is the percentage to one decimal     *)
(* (here in tenths). It throws the 503 CustomError when memPercent is above *)
(* the threshold, and otherwise returns memPercent < memThreshold, a        *)
(* boolean.                                                                 *)
getMemPercent(used) ==
    LET memPercent == toFixed1(used)
    IN  [throws |-> memPercent > MemThreshold * 10,
         error |-> CustomError("Server capacity is low", 503),
         memPercent |-> memPercent,
         value |-> JsBoolean(memPercent < MemThreshold * 10)]

(* A Worker object as buildPool creates it: its id, whether the thread is  *)
(* live, the task it is executing, the call whose listeners are attached    *)
NewWorker(i) == [id |-> i, st |-> "live", job |-> 0, lsn |-> 0]

(* A run() call that has not been made yet *)
NoCall ==
    [pc |-> "new", status |-> 0, mem |-> 0, worker |-> 0, posted |-> FALSE,
     ret |-> 0, result |-> 0, memStats |-> JsUndefined, capacity |-> JsUndefined,
     message |-> ""]

(* The part of the state the synchronous code of the pool works on *)
PoolState == [pool |-> pool, workers |-> workers, calls |-> calls]

Commit(s) ==
    /\ pool' = s.pool
    /\ workers' = s.workers
    /\ calls' = s.calls

(* index.js: this.minWorkers is never assigned *)
minWorkers == "undefined"

(* The loop test as it would be with this.minWorkers assigned 0 *)
ExceedsMinWorkersZero(n) == n > 0

(* pool.length > this.minWorkers: a comparison with undefined is false *)
ExceedsMinWorkers(n) == IF minWorkers = "undefined" THEN FALSE ELSE n > minWorkers

(* index.js: terminateExcessWorkers *)
RECURSIVE terminateExcessWorkers(_)
terminateExcessWorkers(s) ==
    IF ExceedsMinWorkers(Len(s.pool))
    THEN LET h == s.pool[Len(s.pool)]
         IN  terminateExcessWorkers([s EXCEPT !.pool = SubSeq(@, 1, Len(@) - 1),
                                              !.workers[h].st = "terminated",
                                              !.workers[h].job = 0])
    ELSE s

(* index.js: run returns: the status and the result, then the finally *)
runReturn(s, t, status, result) ==
    terminateExcessWorkers([s EXCEPT !.calls[t].pc = "done",
                                     !.calls[t].ret = status,
                                     !.calls[t].result = result])

(* index.js: an error thrown inside run's try: the catch returns            *)
(* { status: err.status || 500, message: err.message }, then the finally.   *)
(* A second rejection of a promise that is already settled has no effect.   *)
runThrow(s, t, err) ==
    IF s.calls[t].pc = "done" THEN s
    ELSE runReturn([s EXCEPT !.calls[t].message = err.message], t, runCatch(err), 0)

(* index.js: buildPool. Creates poolSize workers, ids -1- .. -poolSize-,    *)
(* and pushes each onto this.pool, whatever the pool already holds.         *)
buildPool(s) ==
    [s EXCEPT !.pool = @ \o [i \in 1..poolSize |-> Len(s.workers) + i],
              !.workers = @ \o [i \in 1..poolSize |-> NewWorker(i)]]

(* index.js: executeWorker, up to its await. The listeners of call t are    *)
(* attached to the worker and the task is posted. postMessage throwing      *)
(* rejects the call and leaves the listeners attached; a worker that has    *)
(* exited drops the message. (Every entry of this.pool holds a Worker, so   *)
(* the branch for an entry without one is never taken.)                     *)
executeWorker(s, h, t, postOk) ==
    LET s1 == [s EXCEPT !.workers[h].lsn = t, !.calls[t].worker = h]
    IN  IF ~postOk
        THEN runThrow(s1, t, JsError("failed to post task"))
        ELSE IF s1.workers[h].st = "live"
             THEN [s1 EXCEPT !.workers[h].job = t,
                             !.calls[t].pc = "inflight",
                             !.calls[t].posted = TRUE]
             ELSE [s1 EXCEPT !.calls[t].pc = "inflight",
                             !.calls[t].posted = TRUE]

(* Mutant of runTask: the worker read with pool[0] and left in this.pool *)
runTaskNoShift(s, t, used, postOk) ==
    IF s.pool = <<>>
    THEN [buildPool(s) EXCEPT !.calls[t].pc = "awaitBuild"]
    ELSE LET freeWorker == Head(s.pool)
             memStats == getMemPercent(used)
             s1 == [s EXCEPT !.calls[t].mem = toFixed1(used)]
         IN  IF memStats.throws
             THEN runThrow(s1, t, memStats.error)
             ELSE executeWorker([s1 EXCEPT !.calls[t].memStats = memStats.value],
                                freeWorker, t, postOk)

(* index.js: runTask, from its loop test to its next await *)
runTask(s, t, used, postOk) ==
    IF s.pool = <<>>
    THEN [buildPool(s) EXCEPT !.calls[t].pc = "awaitBuild"]
    ELSE LET freeWorker == Head(s.pool)
             memStats == getMemPercent(used)
             s1 == [s EXCEPT !.pool = Tail(@),
                             !.calls[t].mem = toFixed1(used)]
         IN  IF memStats.throws
             THEN runThrow(s1, t, memStats.error)
             ELSE executeWorker([s1 EXCEPT !.calls[t].memStats = memStats.value],
                                freeWorker, t, postOk)

(* Mutant of messageListener: the worker pushed back whatever the length   *)
(* of this.pool                                                             *)
messageListenerAlwaysPush(s, h, t, data) ==
    LET s1 == [s EXCEPT !.pool = Append(@, h),
                        !.workers[h].lsn = 0,
                        !.calls[t].capacity = s.calls[t].memStats]
    IN  runReturn(s1, t, s.calls[t].status, data)

(* Mutant of messageListener: the rate flag dropped, status 200 returned *)
messageListenerUnflagged(s, h, t, data) ==
    LET s1 == [s EXCEPT !.pool = IF Len(@) < poolSize THEN Append(@, h) ELSE @,
                        !.workers[h].lsn = 0,
                        !.calls[t].capacity = s.calls[t].memStats]
    IN  runReturn(s1, t, 200, data)

(* index.js: executeWorker.messageListener for the call t listening on h:   *)
(* resolve(data), the worker pushed back if the pool is not full, cleanup;  *)
(* then runTask sets result.capacity = memStats and run returns.            *)
messageListener(s, h, t, data) ==
    LET s1 == [s EXCEPT !.pool = IF Len(@) < poolSize THEN Append(@, h) ELSE @,
                        !.workers[h].lsn = 0,
                        !.calls[t].capacity = s.calls[t].memStats]
    IN  runReturn(s1, t, s.calls[t].status, data)

(* index.js: executeWorker.errorListener: cleanup, reject; run's catch *)
errorListener(s, h, t) ==
    runThrow([s EXCEPT !.workers[h].lsn = 0], t,
             JsError("failed during task execution"))

(* A microtask (the continuation of an awaited buildPool) is pending: the   *)
(* event loop handles no worker event before it has run.                    *)
MicrotaskPending == \E t \in Tasks : calls[t].pc = "awaitBuild"

(* The model stops creating workers after MaxBuilds rebuilds of the pool    *)
(* (a buildPool with poolSize 0 creates none)                               *)
CanBuild ==
    \/ pool # <<>>
    \/ poolSize = 0
    \/ Len(workers) < poolSize * (1 + MaxBuilds)

-----------------------------------------------------------------------------
(* index.js pool: initial state, after the constructor *)
InitI ==
    /\ poolSize \in 0..MaxPoolSize
    /\ LET s == buildPool([pool |-> <<>>, workers |-> <<>>,
                           calls |-> [t \in Tasks |-> NoCall]])
       IN  /\ pool = s.pool
           /\ workers = s.workers
           /\ calls = s.calls
    /\ ncalls = 0
    /\ now = 0
    /\ lastTaskTime = <<>>

(* index.js: run(task), up to the first await of runTask *)
Run(d, used, postOk) ==
    /\ variant = "index"
    /\ ncalls < MaxTasks
    /\ CanBuild
    /\ LET t == ncalls + 1
           time == now + d
           rate == canExecuteTask(time, lastTaskTime)
           s0 == [PoolState EXCEPT !.calls[t].status = IF rate.ok THEN 200 ELSE 429]
       IN  /\ now' = time
           /\ lastTaskTime' = rate.last
           /\ ncalls' = t
           /\ Commit(runTask(s0, t, used, postOk))
    /\ lastOp' = "run"
    /\ UNCHANGED poolSize
    /\ UNCHANGED <<variant, qvars, rvars, rrvars>>

(* index.js: runTask resumes after await this.buildPool() *)
Resume(t, used, postOk) ==
    /\ variant = "index"
    /\ calls[t].pc = "awaitBuild"
    /\ CanBuild
    /\ Commit(runTask(PoolState, t, used, postOk))
    /\ lastOp' = "resume"
    /\ UNCHANGED <<poolSize, ncalls, now, lastTaskTime>>
    /\ UNCHANGED <<variant, qvars, rvars, rrvars>>

(* A worker finishes its task and posts the result: the 'message' event.    *)
(* The result is taken to be an object, as the worker of the README posts,  *)
(* so that runTask can attach log and capacity to it.                       *)
Message(h) ==
    /\ variant = "index"
    /\ ~MicrotaskPending
    /\ workers[h].st = "live"
    /\ workers[h].job # 0
    /\ LET data == workers[h].job
           t == workers[h].lsn
           s0 == [PoolState EXCEPT !.workers[h].job = 0]
       IN  Commit(IF t # 0 THEN messageListener(s0, h, t, data) ELSE s0)
    /\ lastOp' = "message"
    /\ UNCHANGED <<poolSize, ncalls, now, lastTaskTime>>
    /\ UNCHANGED <<variant, qvars, rvars, rrvars>>

(* A worker throws an uncaught exception: it emits 'error' and exits.       *)
(* buildPool's handleError logs; executeWorker.errorListener rejects.       *)
WorkerError(h) ==
    /\ variant = "index"
    /\ ~MicrotaskPending
    /\ workers[h].st = "live"
    /\ LET t == workers[h].lsn
           s0 == [PoolState EXCEPT !.workers[h].st = "exited", !.workers[h].job = 0]
       IN  Commit(IF t # 0 THEN errorListener(s0, h, t) ELSE s0)
    /\ lastOp' = "error"
    /\ UNCHANGED <<poolSize, ncalls, now, lastTaskTime>>
    /\ UNCHANGED <<variant, qvars, rvars, rrvars>>

(* A worker's thread ends without a message or an 'error' event: the       *)
(* worker code, which runs when it is handed a task, calls process.exit().  *)
(* Only 'exit' is emitted, and neither buildPool nor executeWorker listens  *)
(* for it.                                                                  *)
WorkerExit(h) ==
    /\ variant = "index"
    /\ ~MicrotaskPending
    /\ workers[h].st = "live"
    /\ workers[h].job # 0
    /\ Commit([PoolState EXCEPT !.workers[h].st = "exited", !.workers[h].job = 0])
    /\ lastOp' = "exit"
    /\ UNCHANGED <<poolSize, ncalls, now, lastTaskTime>>
    /\ UNCHANGED <<variant, qvars, rvars, rrvars>>

(* Mutant of terminateAll: an if in place of the while, one worker popped *)
terminateOne(s) ==
    IF Len(s.pool) > 0
    THEN LET h == s.pool[Len(s.pool)]
         IN  [s EXCEPT !.pool = SubSeq(@, 1, Len(@) - 1),
                       !.workers[h].st = "terminated",
                       !.workers[h].job = 0]
    ELSE s

(* index.js: terminateAllWorkers: while (pool.length > 0) pop and terminate *)
RECURSIVE terminateAll(_)
terminateAll(s) ==
    IF Len(s.pool) > 0
    THEN LET h == s.pool[Len(s.pool)]
         IN  terminateAll([s EXCEPT !.pool = SubSeq(@, 1, Len(@) - 1),
                                    !.workers[h].st = "terminated",
                                    !.workers[h].job = 0])
    ELSE s

TerminateAllWorkers ==
    /\ variant = "index"
    /\ Commit(terminateAll(PoolState))
    /\ lastOp' = IF lastOp \in {"terminate", "terminate2"} THEN "terminate2" ELSE "terminate"
    /\ UNCHANGED <<poolSize, ncalls, now, lastTaskTime>>
    /\ UNCHANGED <<variant, qvars, rvars, rrvars>>

-----------------------------------------------------------------------------
(* Queue-based pool.  Tasks are taken to be structured-cloneable, so that   *)
(* postMessage does not throw.                                              *)

(* The part of the state the synchronous code of the pool works on *)
QState ==
    [pool |-> qPool, queue |-> taskQueue, workers |-> qWorkers,
     promises |-> promises, dispatched |-> dispatched, crashed |-> qCrashed]

QCommit(s) ==
    /\ qPool' = s.pool
    /\ taskQueue' = s.queue
    /\ qWorkers' = s.workers
    /\ promises' = s.promises
    /\ dispatched' = s.dispatched
    /\ qCrashed' = s.crashed

(* this.pool.find(pred): the first index among those satisfying pred       *)
(* (given as the set S), or 0 for undefined                                 *)
FirstIndex(S) == IF S = {} THEN 0 ELSE CHOOSE i \in S : \A j \in S : i <= j

(* this.pool.find(w => w.worker === worker) *)
FindWorker(p, w) == FirstIndex({i \in DOMAIN p : p[i].worker = w})

(* Promise resolve / reject: the first call settles, every call is counted *)
settle(pr, t, how) ==
    [pr EXCEPT ![t].state = IF @ = "pending" THEN how ELSE @, ![t].n = @ + 1]

(* worker.postMessage: a worker that has exited drops the message *)
postMessage(ws, w, t) ==
    IF ws[w].st \in {"starting", "online"}
    THEN [ws EXCEPT ![w].mailbox = Append(@, t)]
    ELSE ws

(* Mutant of QueueHead: the entry taken from the tail (pop) *)
QueueLast(q) == q[Len(q)]

(* taskQueue.shift() *)
QueueHead(q) == Head(q)
QueueRest(q) == Tail(q)

(* Mutant of FreeWorker: the first worker of the pool, busy or not *)
FirstWorker(p) == IF Len(p) > 0 THEN 1 ELSE 0

(* The worker assignTasks picks: this.pool.find(w => !w.busy) *)
FreeWorker(p) == FirstIndex({i \in DOMAIN p : ~p[i].busy})

(* assignTasks *)
assignTasks(s) ==
    LET freeWorker == FreeWorker(s.pool)
    IN  IF freeWorker = 0 \/ Len(s.queue) = 0
        THEN s
        ELSE LET t == QueueHead(s.queue)
             IN  [s EXCEPT !.queue = QueueRest(@),
                           !.pool[freeWorker].busy = TRUE,
                           !.pool[freeWorker].resolve = t,
                           !.dispatched = Append(@, t),
                           !.workers = postMessage(@, s.pool[freeWorker].worker, t)]

(* Mutant of handleWorkerResult: the trailing this.assignTasks() left out *)
handleWorkerResultNoAssign(s, w) ==
    LET workerItem == FindWorker(s.pool, w)
    IN  IF workerItem = 0
        THEN [s EXCEPT !.crashed = TRUE]
        ELSE LET t == s.pool[workerItem].resolve
                 s1 == [s EXCEPT !.pool[workerItem].busy = FALSE]
             IN  IF t # 0
                 THEN [s1 EXCEPT !.promises = settle(@, t, "resolved"),
                                 !.pool[workerItem].resolve = 0]
                 ELSE s1

(* handleWorkerResult(worker, result, workerId) *)
handleWorkerResult(s, w) ==
    LET workerItem == FindWorker(s.pool, w)
    IN  IF workerItem = 0
        THEN [s EXCEPT !.crashed = TRUE]  \* TypeError: workerItem is undefined
        ELSE LET t == s.pool[workerItem].resolve
                 s1 == [s EXCEPT !.pool[workerItem].busy = FALSE]
                 s2 == IF t # 0
                       THEN [s1 EXCEPT !.promises = settle(@, t, "resolved"),
                                       !.pool[workerItem].resolve = 0]
                       ELSE s1
             IN  assignTasks(s2)

(* addWorkerToPool, up to its wait for 'online': new Worker(...) *)
addWorkerToPool(ws, p) ==
    Append(ws, [id |-> Len(p) + 1, st |-> "starting", mailbox |-> <<>>])

(* buildPool's loop: after i iterations, start the next one, or finish.     *)
(* A Worker constructor that throws rejects addWorkerToPool and ends the    *)
(* loop in the catch.                                                       *)
buildStep(i, createOk) ==
    IF i >= qPoolSize THEN "done"
    ELSE IF createOk THEN "await" ELSE "failed"

(* terminateAllWorkers: terminate every worker of this.pool, this.pool = [] *)
qTerminateAll(s) ==
    [s EXCEPT !.workers = [w \in DOMAIN @ |->
                            IF \E i \in DOMAIN s.pool : s.pool[i].worker = w
                            THEN [@[w] EXCEPT !.st = "terminated"]
                            ELSE @[w]],
              !.pool = <<>>]

InFlight(w) == Len(qWorkers[w].mailbox)

InitQ ==
    /\ qPoolSize \in 1..QMaxPoolSize
    /\ qPool = <<>>
    /\ taskQueue = <<>>
    /\ \E createOk \in BOOLEAN :
          /\ build = [i |-> 0, pc |-> buildStep(0, createOk)]
          /\ qWorkers = IF createOk THEN addWorkerToPool(<<>>, <<>>) ELSE <<>>
          /\ qClean = createOk
    /\ promises = [t \in QTasks |-> [state |-> "none", n |-> 0]]
    /\ qn = 0
    /\ qCrashed = FALSE
    /\ dispatched = <<>>
    /\ failedTasks = {}

(* run(task, taskId) *)
QRun ==
    /\ variant = "queue"
    /\ ~qCrashed
    /\ qn < QMaxTasks
    /\ LET t == qn + 1
           s0 == [QState EXCEPT !.promises[t].state = "pending",
                                !.queue = Append(@, t)]
       IN  /\ qn' = t
           /\ QCommit(assignTasks(s0))
    /\ qClean' = (qClean /\ Len(qPool) = qPoolSize)
    /\ lastOp' = "run"
    /\ UNCHANGED <<qPoolSize, build, failedTasks>>
    /\ UNCHANGED <<variant, ivars, rvars, rrvars>>

(* The 'online' event of a starting worker, and buildPool's next iteration *)
QOnline(w, createOk) ==
    /\ variant = "queue"
    /\ ~qCrashed
    /\ qWorkers[w].st = "starting"
    /\ LET p1 == Append(qPool, [id |-> qWorkers[w].id, worker |-> w,
                                busy |-> FALSE, resolve |-> 0])
           ws1 == [qWorkers EXCEPT ![w].st = "online"]
           next == buildStep(build.i + 1, createOk)
       IN  /\ qPool' = p1
           /\ build' = [i |-> build.i + 1, pc |-> next]
           /\ qWorkers' = IF next = "await" THEN addWorkerToPool(ws1, p1) ELSE ws1
           /\ qClean' = (qClean /\ next # "failed")
    /\ lastOp' = "online"
    /\ UNCHANGED <<qPoolSize, taskQueue, promises, qn, qCrashed, dispatched, failedTasks>>
    /\ UNCHANGED <<variant, ivars, rvars, rrvars>>

(* A 'message' event: the worker finished the first task of its mailbox.    *)
(* A message posted before terminate() took effect may still be delivered.  *)
QMessage(w) ==
    /\ variant = "queue"
    /\ ~qCrashed
    /\ qWorkers[w].st \in {"online", "terminated"}
    /\ qWorkers[w].mailbox # <<>>
    /\ LET s0 == [QState EXCEPT !.workers[w].mailbox = Tail(@)]
       IN  QCommit(handleWorkerResult(s0, w))
    /\ lastOp' = "message"
    /\ UNCHANGED <<qPoolSize, build, qn, failedTasks, qClean>>
    /\ UNCHANGED <<variant, ivars, rvars, rrvars>>

(* A worker throws an uncaught exception: 'error' is emitted, the handler   *)
(* logs it, and the worker exits.                                           *)
QWorkerError(w) ==
    /\ variant = "queue"
    /\ ~qCrashed
    /\ qWorkers[w].st \in {"starting", "online"}
    /\ qWorkers' = [qWorkers EXCEPT ![w].st = "exited", ![w].mailbox = <<>>]
    /\ failedTasks' = failedTasks \cup {qWorkers[w].mailbox[i] : i \in DOMAIN qWorkers[w].mailbox}
    /\ qClean' = FALSE
    /\ lastOp' = "error"
    /\ UNCHANGED <<qPoolSize, qPool, taskQueue, build, promises, qn, qCrashed, dispatched>>
    /\ UNCHANGED <<variant, ivars, rvars, rrvars>>

(* terminateAllWorkers() *)
QTerminateAllWorkers ==
    /\ variant = "queue"
    /\ ~qCrashed
    /\ QCommit(qTerminateAll(QState))
    /\ qClean' = FALSE
    /\ lastOp' = IF lastOp \in {"terminate", "terminate2"} THEN "terminate2" ELSE "terminate"
    /\ UNCHANGED <<qPoolSize, build, qn, failedTasks>>
    /\ UNCHANGED <<variant, ivars, rvars, rrvars>>

NextQ ==
    \/ QRun
    \/ \E w \in DOMAIN qWorkers, ok \in BOOLEAN : QOnline(w, ok)
    \/ \E w \in DOMAIN qWorkers : QMessage(w)
    \/ \E w \in DOMAIN qWorkers : QWorkerError(w)
    \/ QTerminateAllWorkers

-----------------------------------------------------------------------------
(* The rate gate on its own: the module's taskManager, called at a          *)
(* sequence of times by the run of one WorkerPool instance or another       *)
(* (only the rate check of run is modelled here).                           *)
NoSubmissions ==
    /\ rTimes = <<>>
    /\ rFlags = <<>>
    /\ rPools = <<>>

(* The rate check of run, made by WorkerPool instance p, d ms after the     *)
(* previous one: every instance calls the one taskManager of the module.    *)
Submit(p, d) ==
    /\ variant = "rate"
    /\ Len(rTimes) < MaxSubmissions
    /\ LET time == now + d
           rate == canExecuteTask(time, lastTaskTime)
       IN  /\ now' = time
           /\ lastTaskTime' = rate.last
           /\ rTimes' = Append(rTimes, time)
           /\ rFlags' = Append(rFlags, ~rate.ok)
           /\ rPools' = Append(rPools, p)
    /\ lastOp' = "submit"
    /\ UNCHANGED <<poolSize, pool, workers, calls, ncalls>>
    /\ UNCHANGED <<variant, qvars, rrvars>>

NextR == \E p \in PoolInstances, d \in RateSteps : Submit(p, d)

-----------------------------------------------------------------------------
(* Round-robin pool: run picks this.pool[this.workerIndex] and leaves the   *)
(* worker in the pool; executeWorker registers a once('message') listener   *)
(* and posts the task.  Tasks are taken to be structured-cloneable and the  *)
(* Worker constructor not to throw; worker failures and shutdown are not    *)
(* followed here.                                                           *)

(* A Worker object as addWorkerToPool creates it: waiter is who awaits its  *)
(* 'online' event, buildPool (0) or a run call; listeners are the calls     *)
(* whose once('message') listener is attached; mailbox the tasks posted to  *)
(* it and not answered yet                                                  *)
RRNewWorker(waiter) ==
    [st |-> "starting", mailbox |-> <<>>, listeners |-> <<>>, waiter |-> waiter]

RRNoCall == [pc |-> "new", worker |-> 0, result |-> 0]

RRState ==
    [pool |-> rrPool, index |-> workerIndex, workers |-> rrWorkers, calls |-> rrCalls]

RRCommit(s) ==
    /\ rrPool' = s.pool
    /\ workerIndex' = s.index
    /\ rrWorkers' = s.workers
    /\ rrCalls' = s.calls

(* run: const workerFromPool = this.pool[this.workerIndex], then            *)
(* await this.checkMemCapacity(), which always resolves                     *)
rrPick(s, t) ==
    [s EXCEPT !.calls[t].worker = s.pool[s.index + 1],
              !.calls[t].pc = "awaitMem"]

(* nextWorker *)
nextWorker(s) ==
    LET i == s.index + 1
    IN  [s EXCEPT !.index = IF i >= Len(s.pool) THEN 0 ELSE i]

(* worker.listeners('message'): the calls whose listener is attached to w *)
Listening(s, w) == {s.workers[w].listeners[i] : i \in DOMAIN s.workers[w].listeners}

(* executeWorker: worker.once('message', messageListener); postMessage *)
rrExecuteWorker(s, t) ==
    LET w == s.calls[t].worker
    IN  [s EXCEPT !.workers[w].listeners = Append(@, t),
                  !.workers[w].mailbox = Append(@, t),
                  !.calls[t].pc = "inflight"]

(* The 'message' event of worker w with payload data: every listener that  *)
(* is attached is removed and called, and each resolves its call with data  *)
rrEmitMessage(s, w, data) ==
    [s EXCEPT !.workers[w].listeners = <<>>,
              !.calls = [t \in RRTasks |->
                            IF t \in Listening(s, w)
                            THEN [@[t] EXCEPT !.pc = "done", !.result = data]
                            ELSE @[t]]]

RRMicrotaskPending == \E t \in RRTasks : rrCalls[t].pc \in {"awaitMem", "awaitNext"}

InitRR ==
    /\ rrPoolSize \in 1..RRMaxPoolSize
    /\ rrPool = <<>>
    /\ workerIndex = 0
    /\ rrWorkers = <<RRNewWorker(0)>>
    /\ rrBuild = [i |-> 0, pc |-> "await"]
    /\ rrCalls = [t \in RRTasks |-> RRNoCall]
    /\ rrn = 0

NotConstructedRR ==
    /\ rrPoolSize = 0
    /\ rrPool = <<>>
    /\ workerIndex = 0
    /\ rrWorkers = <<>>
    /\ rrBuild = [i |-> 0, pc |-> "done"]
    /\ rrCalls = [t \in RRTasks |-> RRNoCall]
    /\ rrn = 0

(* run(task): an empty pool makes the call create a worker and await its   *)
(* 'online' event; otherwise the worker at workerIndex is taken.  The       *)
(* caller calls run from a task of its own, or in the same synchronous      *)
(* block as the run call before                                             *)
RRRun ==
    /\ variant = "roundrobin"
    /\ rrn < RRMaxTasks
    /\ lastOp = "run" \/ ~RRMicrotaskPending
    /\ LET t == rrn + 1
           s == RRState
       IN  IF s.pool = <<>>
           THEN RRCommit([s EXCEPT !.workers = Append(@, RRNewWorker(t)),
                                   !.calls[t].pc = "awaitOnline"])
           ELSE RRCommit(rrPick(s, t))
    /\ rrn' = rrn + 1
    /\ lastOp' = "run"
    /\ UNCHANGED <<rrPoolSize, rrBuild>>
    /\ UNCHANGED <<variant, ivars, qvars, rvars>>

(* The 'online' event of worker w: addWorkerToPool pushes it and resolves; *)
(* buildPool goes on to its next worker, a waiting run call takes           *)
(* this.pool[this.workerIndex]                                              *)
RROnline(w) ==
    /\ variant = "roundrobin"
    /\ w \in DOMAIN rrWorkers
    /\ rrWorkers[w].st = "starting"
    /\ ~RRMicrotaskPending
    /\ LET s0 == RRState
           s1 == [s0 EXCEPT !.workers[w].st = "online", !.pool = Append(@, w)]
           t  == rrWorkers[w].waiter
       IN  IF t = 0
           THEN LET i == rrBuild.i + 1
                IN  IF i < rrPoolSize
                    THEN /\ RRCommit([s1 EXCEPT !.workers = Append(@, RRNewWorker(0))])
                         /\ rrBuild' = [i |-> i, pc |-> "await"]
                    ELSE /\ RRCommit(s1)
                         /\ rrBuild' = [i |-> i, pc |-> "done"]
           ELSE /\ RRCommit(rrPick(s1, t))
                /\ UNCHANGED rrBuild
    /\ lastOp' = "online"
    /\ UNCHANGED <<rrPoolSize, rrn>>
    /\ UNCHANGED <<variant, ivars, qvars, rvars>>

(* The continuation of run after an await: the listener count decides      *)
(* between nextWorker and executeWorker on the worker taken before          *)
RRResume(t) ==
    /\ variant = "roundrobin"
    /\ rrCalls[t].pc \in {"awaitMem", "awaitNext"}
    /\ LET s == RRState
           w == rrCalls[t].worker
       IN  IF rrCalls[t].pc = "awaitMem" /\ Len(rrWorkers[w].listeners) >= ListenerLimit
           THEN RRCommit([nextWorker(s) EXCEPT !.calls[t].pc = "awaitNext"])
           ELSE RRCommit(rrExecuteWorker(s, t))
    /\ lastOp' = "resume"
    /\ UNCHANGED <<rrPoolSize, rrBuild, rrn>>
    /\ UNCHANGED <<variant, ivars, qvars, rvars>>

(* Worker w answers the oldest task posted to it *)
RRMessage(w) ==
    /\ variant = "roundrobin"
    /\ w \in DOMAIN rrWorkers
    /\ rrWorkers[w].st = "online"
    /\ rrWorkers[w].mailbox # <<>>
    /\ ~RRMicrotaskPending
    /\ LET s == RRState
           data == Head(rrWorkers[w].mailbox)
       IN  RRCommit(rrEmitMessage([s EXCEPT !.workers[w].mailbox = Tail(@)], w, data))
    /\ lastOp' = "message"
    /\ UNCHANGED <<rrPoolSize, rrBuild, rrn>>
    /\ UNCHANGED <<variant, ivars, qvars, rvars>>

NextRR ==
    \/ RRRun
    \/ \E w \in 1..(RRMaxPoolSize + RRMaxTasks) : RROnline(w)
    \/ \E t \in RRTasks : RRResume(t)
    \/ \E w \in 1..(RRMaxPoolSize + RRMaxTasks) : RRMessage(w)

NextI ==
    \/ \E d \in TimeSteps, m \in MemLevels, ok \in BOOLEAN : Run(d, m, ok)
    \/ \E t \in Tasks, m \in MemLevels, ok \in BOOLEAN : Resume(t, m, ok)
    \/ \E h \in DOMAIN workers : Message(h)
    \/ \E h \in DOMAIN workers : WorkerError(h)
    \/ \E h \in DOMAIN workers : WorkerExit(h)
    \/ TerminateAllWorkers

(* The pool that was not constructed *)
NotConstructedI ==
    /\ poolSize = 0
    /\ pool = <<>>
    /\ workers = <<>>
    /\ calls = [t \in Tasks |-> NoCall]
    /\ ncalls = 0
    /\ now = 0
    /\ lastTaskTime = <<>>

NotConstructedQ ==
    /\ qPoolSize = 0
    /\ qPool = <<>>
    /\ taskQueue = <<>>
    /\ qWorkers = <<>>
    /\ build = [i |-> 0, pc |-> "done"]
    /\ promises = [t \in QTasks |-> [state |-> "none", n |-> 0]]
    /\ qn = 0
    /\ qCrashed = FALSE
    /\ dispatched = <<>>
    /\ failedTasks = {}
    /\ qClean = FALSE

(* The host constructs one WorkerPool, of one of the two modules, or uses   *)
(* the rate gate alone                                                      *)
Init ==
    /\ lastOp = "init"
    /\ NoSubmissions
    /\ \/ variant = "index" /\ InitI /\ NotConstructedQ /\ NotConstructedRR
       \/ variant = "queue" /\ InitQ /\ NotConstructedI /\ NotConstructedRR
       \/ variant = "rate" /\ NotConstructedI /\ NotConstructedQ /\ NotConstructedRR
       \/ variant = "roundrobin" /\ InitRR /\ NotConstructedI /\ NotConstructedQ

Next == NextI \/ NextQ \/ NextR \/ NextRR

Spec == Init /\ [][Next]_vars

(* A worker that is online and holds a task finishes it and sends its       *)
(* message; a starting worker comes online.                                 *)
QMessageLive(w) == qWorkers[w].st = "online" /\ QMessage(w)

(* The queue-based pool alone, with the fairness its liveness rests on *)
InitQueue ==
    /\ lastOp = "init"
    /\ variant = "queue"
    /\ InitQ
    /\ NotConstructedI
    /\ NotConstructedRR
    /\ NoSubmissions

FairSpecQ ==
    /\ InitQueue
    /\ [][NextQ]_vars
    /\ \A w \in 1..QMaxPoolSize : WF_vars(w \in DOMAIN qWorkers /\ QMessageLive(w))
    /\ WF_vars(\E w \in DOMAIN qWorkers, ok \in BOOLEAN : QOnline(w, ok))

(* The index.js pool alone: a worker that holds a task finishes it and      *)
(* sends its message, and a pending continuation of runTask runs.           *)
InitIndex ==
    /\ lastOp = "init"
    /\ variant = "index"
    /\ InitI
    /\ NotConstructedQ
    /\ NotConstructedRR
    /\ NoSubmissions

FairSpecI ==
    /\ InitIndex
    /\ [][NextI]_vars
    /\ WF_vars(\E h \in DOMAIN workers : Message(h))
    /\ WF_vars(\E t \in Tasks, m \in MemLevels, ok \in BOOLEAN : Resume(t, m, ok))

-----------------------------------------------------------------------------
(* Properties *)

LiveWorkers == {h \in DOMAIN workers : workers[h].st = "live"}

Settled(t) == promises[t].state \in {"resolved", "rejected"}
InQueue(t) == \E i \in DOMAIN taskQueue : taskQueue[i] = t
Dispatched(t) == \E i \in DOMAIN dispatched : dispatched[i] = t
Shutdown == \E w \in DOMAIN qWorkers : qWorkers[w].st = "terminated"
Resolved == {t \in QTasks : promises[t].state = "resolved"}
Min(a, b) == IF a < b THEN a ELSE b

(* C1: in the index.js pool the number of live workers (created and not    *)
(* terminated, idle or executing) never exceeds poolSize.                   *)
C1_LiveWorkersBounded == Cardinality(LiveWorkers) <= poolSize

(* C2: in the queue-based pool no worker ever holds more than one posted,   *)
(* unanswered task (assignTasks never posts to a busy worker), a worker     *)
(* with a task in flight is flagged busy, and at most poolSize tasks are in *)
(* flight at once.                                                          *)
C2_OneTaskPerWorker ==
    /\ \A w \in DOMAIN qWorkers : InFlight(w) <= 1
    /\ \A i \in DOMAIN qPool : InFlight(qPool[i].worker) = 1 => qPool[i].busy
    /\ Cardinality({w \in DOMAIN qWorkers : InFlight(w) > 0}) <= qPoolSize

C2_Witness ==
    /\ qPoolSize = 2
    /\ Len(qPool) = 2
    /\ \A i \in DOMAIN qPool : qPool[i].busy /\ InFlight(qPool[i].worker) = 1
    /\ taskQueue # <<>>

(* C3: in the queue-based pool tasks are posted in the order run was        *)
(* called: the i-th task posted is the i-th task submitted.                 *)
C3_DispatchInSubmissionOrder ==
    \A i \in DOMAIN dispatched : dispatched[i] = i

C3_Witness ==
    /\ Len(qPool) = 2
    /\ dispatched = <<1, 2, 3>>
    /\ qPool[1].resolve = 1
    /\ qPool[2].resolve = 3

(* C4: in the index.js pool a run call whose capacity check sees a          *)
(* memory-used percentage above memThreshold ends with status 503 and its   *)
(* task is never posted; the step that rejects it changes no other call and *)
(* no worker, and every call that ends with 200 or 429 carries the result   *)
(* of its own task.                                                         *)
C4_CapacityRejects ==
    /\ [](\A t \in Tasks :
            /\ calls[t].mem > MemThreshold * 10 =>
                  (calls[t].ret = 503 /\ ~calls[t].posted)
            /\ calls[t].ret \in {200, 429} => calls[t].result = t)
    /\ [][\A t \in Tasks :
            (calls[t].ret = 0 /\ calls'[t].ret = 503) =>
                /\ \A u \in Tasks \ {t} : calls'[u] = calls[u]
                /\ workers' = workers]_vars

C4_Witness ==
    /\ lastOp = "message"
    /\ \E t, u \in Tasks :
          /\ u < t
          /\ calls[t].ret = 503
          /\ calls[t].mem > MemThreshold * 10
          /\ calls[u].ret \in {200, 429}
          /\ calls[u].result = u
          /\ \A v \in Tasks \ {t, u} : calls[v].ret = 0

(* C5: in the index.js pool the step in which a run call is rejected for    *)
(* capacity leaves this.pool and the set of live workers as they were.      *)
C5_RejectionTouchesNoWorker ==
    [][\A t \in Tasks :
         (calls[t].ret = 0 /\ calls'[t].ret = 503) =>
             (pool' = pool /\ LiveWorkers' = LiveWorkers)]_vars

(* C6: in the queue-based pool every run call settles exactly once: a       *)
(* pending promise is eventually resolved or rejected (as long as the      *)
(* Worker constructor itself does not throw), and no promise is settled     *)
(* twice.                                                                   *)
C6_SettlesExactlyOnce ==
    /\ \A t \in QTasks :
          (promises[t].state = "pending" /\ build.pc # "failed")
              ~> (Settled(t) \/ build.pc = "failed")
    /\ [](\A t \in QTasks : promises[t].n <= 1)

(* C7: in the queue-based pool the caller of a task that was in flight on a *)
(* worker when that worker failed has its promise rejected, and no other    *)
(* caller's promise is rejected.                                            *)
C7_FailedTaskRejected ==
    \A t \in QTasks : (t \in failedTasks) <=> (promises[t].state = "rejected")

(* C8: in the queue-based pool, once a worker has failed with a task in     *)
(* flight, every task waiting in taskQueue is eventually dispatched (unless *)
(* the pool is shut down).                                                  *)
C8_QueueServicedAfterFailure ==
    \A t \in QTasks :
        (failedTasks # {} /\ InQueue(t) /\ ~Shutdown) ~> (Dispatched(t) \/ Shutdown)

(* C9: in the queue-based pool, when all run calls are made with every one  *)
(* of the poolSize workers online and no worker fails (qClean), the first   *)
(* poolSize tasks are dispatched at once, the others wait in taskQueue in   *)
(* submission order, each completion dispatches the next one, and again    *)
(* and again every run call made so far has been resolved.                  *)
C9_Scenario ==
    /\ [](qClean =>
            /\ Len(dispatched) = Min(qn, qPoolSize + Cardinality(Resolved))
            /\ taskQueue = [i \in 1..(qn - Len(dispatched)) |-> Len(dispatched) + i])
    /\ []<>(qClean => \A t \in 1..qn : promises[t].state = "resolved")

C9_Witness ==
    /\ qClean
    /\ qn > qPoolSize
    /\ \A t \in 1..qn : promises[t].state = "resolved"

(* C10: after terminateAllWorkers, called once or twice in succession in    *)
(* any state, this.pool is empty (both pools), and the call does not crash  *)
(* the coordinator.                                                         *)
C10_ShutdownIdempotent ==
    lastOp \in {"terminate", "terminate2"} =>
        /\ pool = <<>>
        /\ qPool = <<>>
        /\ ~qCrashed

C10_Witness ==
    /\ lastOp = "terminate2"
    /\ variant = "index"
    /\ pool = <<>>
    /\ Cardinality({h \in DOMAIN workers : workers[h].st = "terminated"}) >= 2

(* C11: in the index.js pool, after terminateAllWorkers returns no worker   *)
(* the pool created is still running, whether it was idle or executing a    *)
(* task when shutdown was called.                                           *)
C11_AllWorkersTerminated ==
    (variant = "index" /\ lastOp \in {"terminate", "terminate2"}) =>
        \A h \in DOMAIN workers : workers[h].st # "live"

(* C12: in the index.js pool the rate flag does not gate execution: a run   *)
(* call flagged 429 goes through the same path as any other (its task is    *)
(* posted unless the capacity check rejects it or postMessage throws), and  *)
(* when the worker's message arrives the call returns the result of its own *)
(* task with status 429; a flagged call never returns 200.                  *)
C12_RateFlagAdvisory ==
    \A t \in Tasks :
        calls[t].status = 429 =>
            /\ calls[t].pc \in {"inflight", "done"} =>
                   \/ calls[t].posted
                   \/ calls[t].ret = 503 /\ calls[t].mem > MemThreshold * 10
                   \/ calls[t].ret = 500 /\ calls[t].worker # 0
            /\ (calls[t].pc = "done" /\ calls[t].result # 0) =>
                   (calls[t].ret = 429 /\ calls[t].result = t /\ calls[t].posted)
            /\ calls[t].ret # 200

C12_Witness ==
    /\ lastOp = "message"
    /\ \E t \in Tasks :
          /\ calls[t].status = 429
          /\ calls[t].posted
          /\ calls[t].ret = 429
          /\ calls[t].result = t

(* The reference rule of the rate gate, over a whole sequence of submission *)
(* times: the first submission is not flagged; a later one is flagged       *)
(* exactly when less than idleThreshold ms separate it from the last        *)
(* submission before it that was not flagged.                               *)
RECURSIVE RefFlagged(_, _)
RECURSIVE LastUnflagged(_, _)
RefFlagged(times, i) ==
    IF i = 1 THEN FALSE
    ELSE times[i] - times[LastUnflagged(times, i - 1)] < IdleThreshold

LastUnflagged(times, j) ==
    IF RefFlagged(times, j) THEN LastUnflagged(times, j - 1) ELSE j

(* C13: over every sequence of submission times the flags canExecuteTask    *)
(* gives are those of the reference rule: the first submission is never     *)
(* flagged, a later one is flagged exactly when less than idleThreshold ms  *)
(* have passed since the last unflagged submission, and lastTaskTime is the *)
(* time of that last unflagged submission (a flagged one does not move it). *)
C13_RateGateRule ==
    /\ Len(rFlags) = Len(rTimes)
    /\ \A i \in DOMAIN rTimes : rFlags[i] = RefFlagged(rTimes, i)
    /\ rTimes # <<>> => lastTaskTime = <<rTimes[LastUnflagged(rTimes, Len(rTimes))]>>

C13_Witness ==
    /\ Len(rTimes) >= 3
    /\ ~rFlags[1]
    /\ rFlags[2]
    /\ ~rFlags[3]
    /\ rTimes[3] - rTimes[2] < IdleThreshold
    /\ rTimes[2] - rTimes[1] < IdleThreshold

(* The workers a run call can still be served by: running, and either idle  *)
(* in this.pool or executing a task                                         *)
UsableWorkers ==
    {h \in DOMAIN workers :
        /\ workers[h].st = "live"
        /\ \/ \E i \in DOMAIN pool : pool[i] = h
           \/ workers[h].job # 0}

(* A worker failed while it was executing the task of call t *)
FailedExecuting(t) ==
    /\ calls[t].posted
    /\ calls[t].ret = 500
    /\ workers[calls[t].worker].st = "exited"

(* terminateAllWorkers has been called *)
ShutdownI ==
    \/ lastOp \in {"terminate", "terminate2"}
    \/ \E h \in DOMAIN workers : workers[h].st = "terminated"

(* C14: in the index.js pool, once a worker has failed while executing a    *)
(* task, the pool eventually has exactly poolSize usable workers again      *)
(* (the failed one replaced), whether or not further run calls are made,    *)
(* unless the pool is shut down.                                            *)
C14_FailedWorkerReplaced ==
    ((\E t \in Tasks : FailedExecuting(t)) /\ ~ShutdownI)
        ~> (Cardinality(UsableWorkers) = poolSize \/ ShutdownI)

(* Worker creations buildPool has attempted: the Worker objects created and *)
(* the one whose constructor threw                                          *)
CreationsAttempted == Len(qWorkers) + (IF build.pc = "failed" THEN 1 ELSE 0)

(* buildPool can go no further: its loop has ended, or it awaits the        *)
(* 'online' event of a worker that has exited                               *)
BuildStopped ==
    \/ build.pc \in {"done", "failed"}
    \/ build.pc = "await" /\ qWorkers[Len(qWorkers)].st = "exited"

(* C15: in the queue-based pool buildPool attempts all poolSize worker      *)
(* creations: it comes to a stop (the constructor threw, a worker failed    *)
(* before coming online, or the loop ended) only with poolSize creations    *)
(* attempted.                                                               *)
C15_AllCreationsAttempted ==
    (variant = "queue" /\ BuildStopped) => CreationsAttempted = qPoolSize

(* postMessage threw when the task of call t was posted *)
PostFailed(t) ==
    /\ calls[t].worker # 0
    /\ ~calls[t].posted
    /\ calls[t].ret = 500

(* C16: in the index.js pool, when postMessage throws the caller gets an    *)
(* error (status 500) and the worker, as long as it is running, is usable:  *)
(* it is in this.pool or has been given to a later run call.                *)
C16_PostFailureKeepsWorker ==
    \A t \in Tasks :
        (PostFailed(t) /\ workers[calls[t].worker].st = "live") =>
            calls[t].worker \in UsableWorkers

(* C17: in the index.js pool no two workers created over the pool's         *)
(* lifetime carry the same id.                                              *)
C17_WorkerIdsUnique ==
    \A h1, h2 \in DOMAIN workers :
        h1 # h2 => workers[h1].id # workers[h2].id

(* C18: in the index.js pool a submission is rejected by the capacity check *)
(* exactly when the memory-used percentage is strictly above memThreshold,  *)
(* and the capacity attached to the result of an admitted call is that      *)
(* percentage.                                                              *)
C18_CapacityIsPercentage ==
    \A t \in Tasks :
        /\ calls[t].pc \in {"inflight", "done"} =>
               (calls[t].ret = 503 <=> calls[t].mem > MemThreshold * 10)
        /\ calls[t].ret \in {200, 429} =>
               calls[t].capacity = JsNumber(calls[t].mem)

(* The places that hold task t: entries of taskQueue, and in-flight slots   *)
(* of workers in this.pool                                                  *)
QueueEntries(t) == {i \in DOMAIN taskQueue : taskQueue[i] = t}
InFlightSlots(t) == {i \in DOMAIN qPool : qPool[i].busy /\ qPool[i].resolve = t}

(* C19: in the queue-based pool every pending task is held in exactly one   *)
(* place, an entry of taskQueue or the in-flight slot of one worker of      *)
(* this.pool, in every reachable state (after terminateAllWorkers too).     *)
C19_PendingTaskInOnePlace ==
    \A t \in QTasks :
        promises[t].state = "pending" =>
            Cardinality(QueueEntries(t)) + Cardinality(InFlightSlots(t)) = 1

(* C20: in the queue-based pool, after every event is handled (run call,    *)
(* worker coming online, completion message) there is no non-busy worker in *)
(* this.pool while taskQueue is non-empty.                                  *)
C20_NoIdleWorkerWhileQueued ==
    ~(/\ taskQueue # <<>>
      /\ \E i \in DOMAIN qPool : ~qPool[i].busy)

(* The worker of pool entry i holds the completion callback of a task that  *)
(* was dispatched and whose promise is unsettled                            *)
HoldsPendingResolve(i) ==
    /\ qPool[i].resolve # 0
    /\ Dispatched(qPool[i].resolve)
    /\ promises[qPool[i].resolve].state = "pending"

(* C21: in the queue-based pool, for every worker of this.pool the busy     *)
(* flag is true exactly when one task is in flight on the worker, and       *)
(* exactly when the worker holds the resolve callback of a dispatched,      *)
(* unsettled task.                                                          *)
C21_BusyIffInFlight ==
    \A i \in DOMAIN qPool :
        /\ qPool[i].busy <=> InFlight(qPool[i].worker) = 1
        /\ qPool[i].busy <=> HoldsPendingResolve(i)

(* C22: in the index.js pool, once terminateAllWorkers has been called no   *)
(* later step creates a worker or posts a task.                             *)
C22_TerminatedIsFinal ==
    [][ShutdownI =>
          /\ Len(workers') = Len(workers)
          /\ \A t \in Tasks : calls'[t].posted = calls[t].posted]_vars

(* C23: in the index.js pool a run call that is rejected for capacity has   *)
(* not run the rate check: the step of run that rejects it leaves           *)
(* taskManager.lastTaskTime unchanged and records no rate flag.             *)
C23_CapacityBeforeRate ==
    [][\A t \in Tasks :
         (calls[t].pc = "new" /\ calls'[t].ret = 503) =>
             (lastTaskTime' = lastTaskTime /\ calls'[t].status = 0)]_vars

(* The worker of call t failed while it was executing the task *)
WorkerFailed(t) ==
    /\ calls[t].posted
    /\ calls[t].worker # 0
    /\ workers[calls[t].worker].st = "exited"
    /\ calls[t].result = 0

(* C24: in the index.js pool every run call that ends returns an object     *)
(* with a status: 200 or 429 (its rate flag) exactly when the task          *)
(* succeeded, 503 exactly when the capacity check failed, 500 with a        *)
(* message exactly when the worker failed during execution or the task      *)
(* could not be posted; a call that has not ended has returned nothing.     *)
C24_RunNeverRejects ==
    \A t \in Tasks :
        /\ calls[t].pc = "done" <=> calls[t].ret \in {200, 429, 503, 500}
        /\ calls[t].pc # "done" => calls[t].ret = 0
        /\ calls[t].ret \in {200, 429} <=>
               (calls[t].pc = "done" /\ calls[t].posted /\ calls[t].result = t)
        /\ calls[t].ret \in {200, 429} => calls[t].ret = calls[t].status
        /\ calls[t].ret = 503 <=>
               (calls[t].pc = "done" /\ calls[t].mem > MemThreshold * 10)
        /\ calls[t].ret = 500 <=>
               (calls[t].pc = "done" /\ (PostFailed(t) \/ WorkerFailed(t)))
        /\ calls[t].ret \in {500, 503} <=> calls[t].message # ""

C24_Witness ==
    \E t, u \in Tasks :
        /\ calls[t].ret = 500
        /\ PostFailed(t)
        /\ calls[t].message = "failed to post task"
        /\ calls[u].ret = 500
        /\ WorkerFailed(u)
        /\ calls[u].message = "failed during task execution"

(* The task of call t is in flight on a running worker *)
Executing(t) ==
    /\ calls[t].pc = "inflight"
    /\ calls[t].worker # 0
    /\ workers[calls[t].worker].job = t

(* C25: in the index.js pool every task in flight on a worker reaches one   *)
(* terminal outcome. A worker that has stopped running sends no further     *)
(* event, so the run call has to end in the step in which its worker stops  *)
(* (by an error, or by its thread ending with neither message nor error);   *)
(* and the outcome of a call that has ended never changes.                  *)
C25_OneTerminalOutcome ==
    [][\A t \in Tasks :
         /\ (Executing(t) /\ workers'[calls[t].worker].st # "live") =>
                (calls'[t].pc = "done" /\ calls'[t].ret = 500)
         /\ calls[t].pc = "done" => calls'[t] = calls[t]]_vars

InPool(h) == \E i \in DOMAIN pool : pool[i] = h

(* C26: in the index.js pool a worker is never given to two run calls at    *)
(* once: a worker that a call has taken with pool.shift() and whose         *)
(* completion message has not been handled is not in this.pool, no worker   *)
(* is in this.pool twice, and two calls in flight never hold the same       *)
(* worker.                                                                  *)
C26_WorkerHeldByOneCall ==
    /\ \A t \in Tasks :
          (calls[t].pc = "inflight" /\ calls[t].worker # 0) => ~InPool(calls[t].worker)
    /\ \A h \in DOMAIN workers : workers[h].job # 0 => ~InPool(h)
    /\ \A i, j \in DOMAIN pool : i # j => pool[i] # pool[j]
    /\ \A t, u \in Tasks :
          (t # u /\ calls[t].pc = "inflight" /\ calls[u].pc = "inflight")
              => calls[t].worker # calls[u].worker

C26_Witness ==
    \E t, u \in Tasks :
        /\ calls[t].pc = "done"
        /\ calls[t].ret \in {200, 429}
        /\ calls[u].pc = "inflight"
        /\ calls[u].worker = calls[t].worker
        /\ workers[calls[u].worker].job = u

(* The reference rule of the rate gate applied to each WorkerPool instance  *)
(* on its own: submission i is judged against the earlier submissions to    *)
(* the same instance only.                                                  *)
OwnEarlier(i) == {j \in DOMAIN rTimes : j < i /\ rPools[j] = rPools[i]}
OwnPrevious(i) == CHOOSE j \in OwnEarlier(i) : \A k \in OwnEarlier(i) : k <= j

RECURSIVE OwnRefFlagged(_)
RECURSIVE OwnLastUnflagged(_)
OwnRefFlagged(i) ==
    IF OwnEarlier(i) = {} THEN FALSE
    ELSE rTimes[i] - rTimes[OwnLastUnflagged(OwnPrevious(i))] < IdleThreshold

OwnLastUnflagged(j) ==
    IF OwnRefFlagged(j) THEN OwnLastUnflagged(OwnPrevious(j)) ELSE j

(* C27: two WorkerPool instances are independent: whether a submission to   *)
(* one instance is flagged (status 429) is what the rate rule gives on      *)
(* that instance's own earlier submissions, whatever was submitted to the   *)
(* other instance.                                                          *)
C27_PoolsIndependent ==
    \A i \in DOMAIN rFlags : rFlags[i] = OwnRefFlagged(i)

(* C28: in the index.js pool the step that handles the completion message   *)
(* of a worker leaves that worker in this.pool.                             *)
C28_CompletedWorkerReturns ==
    [][\A h \in DOMAIN workers :
         (lastOp' = "message" /\ workers[h].job # 0 /\ workers'[h].job = 0) =>
             \E i \in DOMAIN pool' : pool'[i] = h]_vars

(* C29: in the index.js pool runTask takes a worker from a non-empty        *)
(* this.pool only (the step in which a call passes pool.shift() starts with *)
(* a worker in the pool and takes the first one), and the loop              *)
(* while (pool.length === 0) await buildPool() comes to an end for every    *)
(* poolSize >= 0: a call waiting in it eventually leaves it (as far as the  *)
(* model follows the rebuilds of the pool).                                 *)
C29_LoopEndsShiftNonEmpty ==
    /\ [][\A t \in Tasks :
            (calls[t].mem = 0 /\ calls'[t].mem # 0) =>
                /\ pool # <<>>
                /\ calls'[t].worker # 0 => calls'[t].worker = Head(pool)]_vars
    /\ \A t \in Tasks :
          (calls[t].pc = "awaitBuild") ~> (calls[t].pc # "awaitBuild" \/ ~CanBuild)

(* C30: in the index.js pool this.pool never holds more than poolSize       *)
(* workers, whatever the sequence of builds, rebuilds and returns.          *)
C30_IdleListBounded == Len(pool) <= poolSize

C30_Witness ==
    /\ lastOp = "message"
    /\ poolSize >= 1
    /\ Len(pool) = poolSize
    /\ Len(workers) > poolSize
    /\ \E h \in DOMAIN workers :
          /\ workers[h].st = "live"
          /\ workers[h].job = 0
          /\ ~InPool(h)
          /\ \E t \in Tasks : calls[t].worker = h /\ calls[t].ret \in {200, 429}

(* C31: in the queue-based pool handleWorkerResult always finds the worker  *)
(* that sent the message in this.pool: no completion message, one arriving  *)
(* after terminateAllWorkers included, raises an error in the coordinator.  *)
C31_ResultHandledAfterShutdown == ~qCrashed

(* C32: in the round-robin pool a worker is handed one task at a time and a *)
(* run call is resolved with the answer to its own task: no worker has two  *)
(* unanswered tasks, and a call that ended holds the result of its task.    *)
C32_OneTaskPerWorker ==
    /\ \A w \in DOMAIN rrWorkers : Len(rrWorkers[w].mailbox) <= 1
    /\ \A t \in RRTasks : rrCalls[t].pc = "done" => rrCalls[t].result = t

(* The workers that terminate() was called on *)
TerminatedWorkers(ws) == {h \in DOMAIN ws : ws[h].st = "terminated"}

====
